---------------------------- MODULE Spec2Model ----------------------------
(***************************************************************************)
(* A model of the Protospace doorbell repository.                          *)
(*                                                                         *)
(*   - src/main.py: the MQTT doorbell listener.  fetch_mqtt creates one    *)
(*     asyncio task per message; process_mqtt filters the message and      *)
(*     ring_bell debounces on the global COOLDOWN timestamp and plays the   *)
(*     sounds on the one pygame mixer.                                     *)
(*   - src/pyezviz/client.py: EzvizClient, its session token, login() and  *)
(*     the endpoint operations that re-login and retry on HTTP 401.        *)
(*                                                                         *)
(* Time is counted in whole seconds.  asyncio runs one task at a time and  *)
(* a task gives up control only at an await that suspends, so one action   *)
(* of the listener is the code between two suspension points.  A sleep     *)
(* shorter than a second (0.1 s, 0.75 s) ends before two seconds have      *)
(* ticked; the length of a sound file is not fixed by the model: the music *)
(* ends at any step.                                                       *)
(***************************************************************************)
EXTENDS Integers, Sequences, FiniteSets, TLC

VARIABLES
    clock,      \* time.time(), in seconds since the module was loaded
    COOLDOWN,   \* main.py: the global COOLDOWN timestamp
    fetch_pc,   \* fetch_mqtt: "sleep" (asyncio.sleep(3)) or "listening"
    tasks,      \* the ring actions that were permitted, in order of permission
    music,      \* pygame.mixer.music: the loaded file and get_busy()
    last,       \* history: the last message process_mqtt handled, its outcome
    token,      \* EzvizClient._token
    creds,      \* EzvizClient: account and password were both given
    call        \* the client call in progress: where it stands, what it did

bellVars == <<clock, COOLDOWN, fetch_pc, tasks, music, last>>
clientVars == <<token, creds, call>>
vars == <<clock, COOLDOWN, fetch_pc, tasks, music, last, token, creds, call>>

(***************************************************************************)
(* Bounds of the model.                                                    *)
(***************************************************************************)
MaxTime == 11       \* the clock stops here
MaxTasks == 3       \* ring actions kept in tasks
MaxDepth == 3       \* calls of login() and get_service_urls() nested in one call

(***************************************************************************)
(* Program constants of src/main.py.                                       *)
(***************************************************************************)
COOLDOWN_SECONDS == 5       \* ring_bell: time.time() - COOLDOWN < 5.0
SUBSCRIBE_DELAY == 3        \* fetch_mqtt: await asyncio.sleep(3)

CHIME == "chime.ogg"
TESTING == "testing.ogg"    \* the literal ring_bell compares the sound with

DOORBELLS ==
    [id \in {"647166", "549660", "56504"} |->
        CASE id = "647166" -> [name |-> "Front Door", sound |-> "frontdoor.ogg"]
          [] id = "549660" -> [name |-> "Back Door", sound |-> "backdoor.ogg"]
          [] id = "56504" -> [name |-> "Test Door", sound |-> "testing.ogg"]]

(***************************************************************************)
(* Messages.  A payload is bytes: utf8 says whether payload.decode()       *)
(* succeeds, json is what json.loads makes of the text ("invalid" when it  *)
(* raises JSONDecodeError), and for an object id is the value under 'id'.  *)
(***************************************************************************)
Absent == [t |-> "absent", n |-> 0, s |-> ""]
IntVal(n) == [t |-> "int", n |-> n, s |-> ""]
FloatVal(n) == [t |-> "float", n |-> n, s |-> ""]     \* the float n.0
StrVal(s) == [t |-> "str", n |-> 0, s |-> s]

Object(id) == [t |-> "object", id |-> id]
NonObject(t) == [t |-> t, id |-> Absent]

Msg(topic, utf8, json) == [topic |-> topic, utf8 |-> utf8, json |-> json]

RTL == "rtl_433/Generic-Remote"
OTHER_TOPIC == "zigbee2mqtt/door"

Messages ==
    { Msg(RTL, TRUE, Object(IntVal(647166))),       \* {"id": 647166}
      Msg(RTL, TRUE, Object(StrVal("549660"))),     \* {"id": "549660"}
      Msg(RTL, TRUE, Object(IntVal(56504))),        \* {"id": 56504}
      Msg(RTL, TRUE, Object(IntVal(999999))),       \* {"id": 999999}
      Msg(RTL, TRUE, Object(FloatVal(647166))),     \* {"id": 647166.0}
      Msg(RTL, TRUE, Object(Absent)),               \* {"model": "x"}
      Msg(RTL, TRUE, NonObject("array")),           \* [647166]
      Msg(RTL, TRUE, NonObject("invalid")),         \* not JSON
      Msg(RTL, FALSE, NonObject("invalid")),        \* bytes that are not UTF-8
      Msg(OTHER_TOPIC, TRUE, Object(IntVal(647166))) }

NoMsg == Msg("", TRUE, NonObject("invalid"))

(***************************************************************************)
(* Python's str() of the values an id can take, and str.startswith.        *)
(***************************************************************************)
Digit(d) ==
    CASE d = 0 -> "0" [] d = 1 -> "1" [] d = 2 -> "2" [] d = 3 -> "3"
      [] d = 4 -> "4" [] d = 5 -> "5" [] d = 6 -> "6" [] d = 7 -> "7"
      [] d = 8 -> "8" [] d = 9 -> "9"

RECURSIVE Decimal(_)
Decimal(n) == IF n < 10 THEN Digit(n) ELSE Decimal(n \div 10) \o Digit(n % 10)

\* a str() that prints the float n.0 like the integer n
PyStrTruncating(v) ==
    CASE v.t = "int" -> Decimal(v.n)
      [] v.t = "float" -> Decimal(v.n)
      [] v.t = "str" -> v.s

PyStr(v) ==
    CASE v.t = "int" -> Decimal(v.n)
      [] v.t = "float" -> Decimal(v.n) \o ".0"
      [] v.t = "str" -> v.s

StartsWith(s, prefix) ==
    /\ Len(s) >= Len(prefix)
    /\ SubSeq(s, 1, Len(prefix)) = prefix

\* data.get('id', '')
GetId(json) == IF json.id.t = "absent" THEN StrVal("") ELSE json.id

(***************************************************************************)
(* process_mqtt up to the call of ring_bell: what becomes of a message     *)
(* before the cooldown is looked at.  payload.decode() comes first and is  *)
(* outside any try; only json.loads is guarded, and only against           *)
(* JSONDecodeError; data.get on a value that is no dict raises.            *)
(***************************************************************************)
\* a process_mqtt that does not look at the topic
FilterAnyTopic(msg) ==
    IF ~msg.utf8 THEN "UnicodeDecodeError"
    ELSE IF msg.json.t = "invalid" THEN "invalid_json"
    ELSE IF msg.json.t # "object" THEN "AttributeError"
    ELSE IF PyStr(GetId(msg.json)) \notin DOMAIN DOORBELLS THEN "invalid_id"
    ELSE "ring_bell"

Filter(msg) ==
    IF ~msg.utf8 THEN "UnicodeDecodeError"
    ELSE IF ~StartsWith(msg.topic, "rtl_433") THEN "invalid_topic"
    ELSE IF msg.json.t = "invalid" THEN "invalid_json"
    ELSE IF msg.json.t # "object" THEN "AttributeError"
    ELSE IF PyStr(GetId(msg.json)) \notin DOMAIN DOORBELLS THEN "invalid_id"
    ELSE "ring_bell"

\* doorbell['sound'] of a message that passed the filter
SoundOf(msg) == DOORBELLS[PyStr(GetId(msg.json))].sound

\* a cooldown check that is one second short
CooldownSkipsShort(now, cooldown) == now - cooldown < COOLDOWN_SECONDS - 1

\* the listener without a cooldown check
CooldownSkipsNever(now, cooldown) == FALSE

\* ring_bell: if time.time() - COOLDOWN < 5.0: return
CooldownSkips(now, cooldown) == now - cooldown < COOLDOWN_SECONDS

\* a listener that keeps one cooldown for each device
OutcomePerDevice(msg, now, cooldown) ==
    IF Filter(msg) # "ring_bell" THEN Filter(msg)
    ELSE IF \E i \in 1..Len(tasks) :
                /\ tasks[i].sound = SoundOf(msg)
                /\ CooldownSkips(now, tasks[i].granted)
    THEN "cooldown_skip"
    ELSE "ring"

\* what process_mqtt(msg) comes to at time now
Outcome(msg, now, cooldown) ==
    IF Filter(msg) # "ring_bell" THEN Filter(msg)
    ELSE IF CooldownSkips(now, cooldown) THEN "cooldown_skip"
    ELSE "ring"

\* a stamp that is also taken when the event is skipped
NewCooldownSliding(outcome, now, cooldown) ==
    IF outcome \in {"ring", "cooldown_skip"} THEN now ELSE cooldown

\* a ring_bell that never takes the stamp
NewCooldownNever(outcome, now, cooldown) == cooldown

\* ring_bell: COOLDOWN = time.time(), on the path that did not return
NewCooldown(outcome, now, cooldown) ==
    IF outcome = "ring" THEN now ELSE cooldown

(***************************************************************************)
(* ring_bell after the cooldown check, cut at its suspension points:       *)
(*   sleep1  await asyncio.sleep(0.1)                                      *)
(*   play1   play_sound(CHIME), polling get_busy()                         *)
(*   play2   play_sound(sound)                                             *)
(*   sleep2  await asyncio.sleep(0.75)                                     *)
(*   play3   play_sound(CHIME)                                             *)
(*   play4   play_sound(sound)                                             *)
(*   done    'Done ringing.'                                               *)
(* RingStep gives, for a task resumed at pc, the point it runs to and the  *)
(* file it hands to the mixer on the way ("none": no play_sound call).     *)
(***************************************************************************)
PlayPcs == {"play1", "play2", "play3", "play4"}
SleepPcs == {"sleep1", "sleep2"}

\* a ring_bell whose second round leaves the chime out
RingStepOneChime(pc, sound) ==
    CASE pc = "sleep1" ->
            IF sound # TESTING THEN [pc |-> "play1", play |-> CHIME]
            ELSE [pc |-> "play2", play |-> sound]
      [] pc = "play1" -> [pc |-> "play2", play |-> sound]
      [] pc = "play2" -> [pc |-> "sleep2", play |-> "none"]
      [] pc = "sleep2" -> [pc |-> "play4", play |-> sound]
      [] pc = "play3" -> [pc |-> "play4", play |-> sound]
      [] pc = "play4" -> [pc |-> "done", play |-> "none"]

RingStep(pc, sound) ==
    CASE pc = "sleep1" ->
            IF sound # TESTING THEN [pc |-> "play1", play |-> CHIME]
            ELSE [pc |-> "play2", play |-> sound]
      [] pc = "play1" -> [pc |-> "play2", play |-> sound]
      [] pc = "play2" -> [pc |-> "sleep2", play |-> "none"]
      [] pc = "sleep2" ->
            IF sound # TESTING THEN [pc |-> "play3", play |-> CHIME]
            ELSE [pc |-> "play4", play |-> sound]
      [] pc = "play3" -> [pc |-> "play4", play |-> sound]
      [] pc = "play4" -> [pc |-> "done", play |-> "none"]

\* play_sound: pygame.mixer.music.load(filename); pygame.mixer.music.play()
Load(m, file) == IF file = "none" THEN m ELSE [file |-> file, busy |-> TRUE]

\* history, kept with a permitted ring: the event handled just before it was
\* discarded, so events were discarded since the ring before
AfterDiscard(l, outcome) ==
    outcome = "ring" /\ l.outcome \notin {"none", "ring"}

InitBell ==
    /\ clock = 0
    /\ COOLDOWN = 0                 \* COOLDOWN = time.time() at load
    /\ fetch_pc = "sleep"
    /\ tasks = <<>>
    /\ music = [file |-> "none", busy |-> FALSE]
    /\ last = [msg |-> NoMsg, outcome |-> "none", after_discard |-> FALSE]

\* A task is due when its sleep (0.1 s or 0.75 s) is running, or when it polls
\* get_busy() every 0.1 s and the mixer is idle: it resumes within a second.
Due(t) == t.pc \in SleepPcs \/ (t.pc \in PlayPcs /\ ~music.busy)

\* a second passes; a due task has seen at most one second pass
Tick ==
    /\ clock < MaxTime
    /\ \A i \in 1..Len(tasks) : Due(tasks[i]) => tasks[i].waited = 0
    /\ clock' = clock + 1
    /\ tasks' = [i \in 1..Len(tasks) |->
                    [tasks[i] EXCEPT !.waited = IF Due(tasks[i]) THEN 1 ELSE 0]]
    /\ UNCHANGED <<COOLDOWN, fetch_pc, music, last>>
    /\ UNCHANGED clientVars

\* fetch_mqtt: asyncio.sleep(3) is over, the client connects and subscribes
fetch_mqtt ==
    /\ fetch_pc = "sleep"
    /\ clock >= SUBSCRIBE_DELAY
    /\ fetch_pc' = "listening"
    /\ UNCHANGED <<clock, COOLDOWN, tasks, music, last>>
    /\ UNCHANGED clientVars

\* a loop that awaits process_mqtt(message) itself: the next message is
\* taken when the ring of the one before is done
DeliversAfterRing ==
    /\ fetch_pc = "listening"
    /\ \A i \in 1..Len(tasks) : tasks[i].pc = "done"

\* fetch_mqtt's loop takes the next message: create_task does not suspend it
Delivers == fetch_pc = "listening"

\* fetch_mqtt's loop hands msg to a new task, which runs process_mqtt and
\* ring_bell up to ring_bell's first suspension, the sleep after the stamp.
process_mqtt(msg) ==
    /\ Delivers
    /\ Len(tasks) < MaxTasks
    /\ LET outcome == Outcome(msg, clock, COOLDOWN) IN
        /\ last' = [msg |-> msg, outcome |-> outcome,
                    after_discard |-> AfterDiscard(last, outcome)]
        /\ COOLDOWN' = NewCooldown(outcome, clock, COOLDOWN)
        /\ tasks' = IF outcome = "ring"
                    THEN Append(tasks, [msg |-> msg, sound |-> SoundOf(msg),
                                        granted |-> clock, pc |-> "sleep1",
                                        plays |-> <<>>, returned |-> 0,
                                        waited |-> 0])
                    ELSE tasks
    /\ UNCHANGED <<clock, fetch_pc, music>>
    /\ UNCHANGED clientVars

\* task i runs from the point pc to its next suspension
Resume(i) ==
    LET t == tasks[i]
        step == RingStep(t.pc, t.sound) IN
    /\ tasks' = [tasks EXCEPT ![i] =
                    [t EXCEPT !.pc = step.pc,
                              !.waited = 0,
                              !.plays = IF step.play = "none" THEN @
                                        ELSE Append(@, step.play),
                              !.returned = IF t.pc \in PlayPcs THEN @ + 1 ELSE @]]
    /\ music' = Load(music, step.play)
    /\ UNCHANGED <<clock, COOLDOWN, fetch_pc, last>>
    /\ UNCHANGED clientVars

\* ring_bell: an asyncio.sleep of task i is over
ring_bell_wakes(i) ==
    /\ i \in 1..Len(tasks)
    /\ tasks[i].pc \in SleepPcs
    /\ Resume(i)

\* play_sound of task i finds get_busy() false and returns to ring_bell
play_sound_returns(i) ==
    /\ i \in 1..Len(tasks)
    /\ tasks[i].pc \in PlayPcs
    /\ ~music.busy
    /\ Resume(i)

\* the mixer reaches the end of the file it is playing
music_ends ==
    /\ music.busy
    /\ music' = [music EXCEPT !.busy = FALSE]
    /\ UNCHANGED <<clock, COOLDOWN, fetch_pc, tasks, last>>
    /\ UNCHANGED clientVars

NextBell ==
    \/ Tick
    \/ fetch_mqtt
    \/ \E msg \in Messages : process_mqtt(msg)
    \/ \E i \in 1..MaxTasks : ring_bell_wakes(i)
    \/ \E i \in 1..MaxTasks : play_sound_returns(i)
    \/ music_ends


(***************************************************************************)
(*                      src/pyezviz/client.py                              *)
(*                                                                         *)
(* A call of the client is a chain of blocking HTTP exchanges.  One action *)
(* is one answer of the server and the code that runs on it, up to the     *)
(* next request or to the end of the call.  call.req names the request     *)
(* that is out; call.stack holds what the callers still have to do when    *)
(* the function that is running returns:                                   *)
(*   "retry"             an operation called login() and re-issues itself  *)
(*   "raise_http"        get_service_urls called login() on a 401 and      *)
(*                       raises HTTPError after it                         *)
(*   "set_service_urls"  login/_login called get_service_urls and stores   *)
(*                       its result in the token                           *)
(* No function of the client catches what a callee raises, so a raise ends *)
(* the whole call.                                                         *)
(***************************************************************************)
MAX_RETRIES == 3

NONE == "<None>"                \* Python's None, also a key the dict lacks
Truthy(v) == v \notin {NONE, ""}

RetryOps ==
    {"_api_get_pagelist", "get_alarminfo", "_switch_status", "sound_alarm",
     "api_set_defence_schedule", "api_set_defence_mode",
     "detection_sensibility", "get_detection_sensibility", "alarm_sound"}
Ops == RetryOps \cup {"ptz_control"}
\* operations that check their arguments before the request
CheckedOps == {"_api_get_pagelist", "detection_sensibility", "alarm_sound",
               "ptz_control"}

\* what the server can answer to an operation's request
OpResponses ==
    {"conn_error", "http_401", "http_error", "empty_body", "bad_json",
     "app_error", "empty_result", "ok"}

DecodeError == "PyEzvizError: Impossible to decode response"
NoData == "PyEzvizError: No data"
MaxRetriesExceeded == "PyEzvizError: Can't gather proper data. Max retries exceeded."
LoginRequired == "PyEzvizError: Login with account and password required"

(***************************************************************************)
(* What an operation does with an answer: "login_retry" (self.login(),     *)
(* then the same operation with max_retries + 1), a raise, or a return.    *)
(* The try around the request catches requests.HTTPError only.             *)
(***************************************************************************)
\* an except branch that takes an unreachable host for an expired session
OnHttpErrorRetriesUnreachable(resp) ==
    CASE resp \in {"conn_error", "http_401"} -> "login_retry"
      [] resp = "http_error" -> "HTTPError"

\* an except branch that logs in again on every HTTP error status
OnHttpErrorRetriesAny(resp) ==
    CASE resp = "conn_error" -> "ConnectionError"
      [] resp \in {"http_401", "http_error"} -> "login_retry"

OnHttpError(resp) ==
    CASE resp = "conn_error" -> "ConnectionError"
      [] resp = "http_401" -> "login_retry"
      [] resp = "http_error" -> "HTTPError"

HttpFailures == {"conn_error", "http_401", "http_error"}

\* a pagelist fetch that takes an empty result for an answer
api_get_pagelistReturnsEmpty(resp) ==
    CASE resp \in HttpFailures -> OnHttpError(resp)
      [] resp = "empty_body" -> NoData
      [] resp = "bad_json" -> DecodeError
      [] resp = "app_error" -> "login_retry"
      [] resp = "empty_result" -> "return: json_result"
      [] resp = "ok" -> "return: json_result"

api_get_pagelist(resp) ==
    CASE resp \in HttpFailures -> OnHttpError(resp)
      [] resp = "empty_body" -> NoData
      [] resp = "bad_json" -> DecodeError
      [] resp = "app_error" -> "login_retry"
      [] resp = "empty_result" -> "login_retry"
      [] resp = "ok" -> "return: json_result"

get_alarminfo(resp) ==
    CASE resp \in HttpFailures -> OnHttpError(resp)
      [] resp = "empty_body" -> NoData
      [] resp = "bad_json" -> DecodeError
      [] OTHER -> "return: json_output"

\* _switch_status, sound_alarm, api_set_defence_schedule, api_set_defence_mode
SetWithCode(resp, what) ==
    CASE resp \in HttpFailures -> OnHttpError(resp)
      [] resp \in {"empty_body", "bad_json"} -> DecodeError
      [] resp = "app_error" -> "PyEzvizError: Could not set " \o what
      [] OTHER -> "return: True"

detection_sensibility(resp) ==
    CASE resp \in HttpFailures -> OnHttpError(resp)
      [] resp \in {"empty_body", "bad_json"} -> "PyEzvizError: Could not decode response"
      [] resp = "app_error" -> "return: Unknown value"
      [] OTHER -> "return: True"

get_detection_sensibility(resp) ==
    CASE resp \in HttpFailures -> OnHttpError(resp)
      [] resp \in {"empty_body", "bad_json"} -> "PyEzvizError: Could not decode response"
      [] resp \in {"app_error", "empty_result"} -> "return: Unknown"
      [] OTHER -> "return: value"

alarm_sound(resp) ==
    CASE resp \in HttpFailures -> OnHttpError(resp)
      [] OTHER -> "return: True"

ptz_control(resp) ==
    CASE resp = "conn_error" -> "ConnectionError"
      [] resp \in {"http_401", "http_error"} -> "HTTPError"
      [] OTHER -> "return: req.text"

OpHandle(op, resp) ==
    CASE op = "_api_get_pagelist" -> api_get_pagelist(resp)
      [] op = "get_alarminfo" -> get_alarminfo(resp)
      [] op = "_switch_status" -> SetWithCode(resp, "the switch")
      [] op = "sound_alarm" -> SetWithCode(resp, "the alarm sound")
      [] op = "api_set_defence_schedule" -> SetWithCode(resp, "the schedule")
      [] op = "api_set_defence_mode" -> SetWithCode(resp, "defence mode")
      [] op = "detection_sensibility" -> detection_sensibility(resp)
      [] op = "get_detection_sensibility" -> get_detection_sensibility(resp)
      [] op = "alarm_sound" -> alarm_sound(resp)
      [] op = "ptz_control" -> ptz_control(resp)

(***************************************************************************)
(* The answers of the server to the login, refresh and service-info        *)
(* requests.  An "ok" answer carries the fields the client reads from it.  *)
(***************************************************************************)
SessionIds == {"s1", "s2", ""}
RefreshIds == {"r1", ""}
EU == "apiieu.ezvizlife.com"
US == "apiius.ezvizlife.com"
SA == "apiisa.ezvizlife.com"

Answer(kind, sid, rf, user, domain) ==
    [kind |-> kind, sid |-> sid, rf |-> rf, user |-> user, domain |-> domain]
Bare(kind) == Answer(kind, "", "", "", "")

RefreshAnswers ==
    {Bare(k) : k \in {"conn_error", "http_error", "bad_json"}}
    \cup {Answer("ok", sid, rf, "", "") : sid \in SessionIds, rf \in RefreshIds}

LoginAnswers ==
    {Bare(k) : k \in {"conn_error", "http_error", "bad_json",
                      "1013", "1014", "1015"}}
    \cup {Answer("1100", "", "", "", d) : d \in {US, SA}}
    \cup {Answer("ok", sid, rf, "user", US) : sid \in SessionIds, rf \in RefreshIds}

ServiceUrlsAnswers ==
    {"conn_error", "http_401", "http_error", "empty_body", "bad_json", "ok"}

\* the form fields of the login request and of the refresh request
Payload(req) ==
    CASE req = "login" -> {"account", "password", "featureCode", "msgType", "cuName"}
      [] req = "refresh" -> {"refreshSessionId", "featureCode"}
      [] OTHER -> {}

\* _login: a region code (no dot in it) becomes the region's host name
HasDot(s) == \E i \in 1..Len(s) : SubSeq(s, i, i) = "."
RegionUrl(url) == IF HasDot(url) THEN url ELSE "apii" \o url \o ".ezvizlife.com"

(***************************************************************************)
(* Steps of a call on a configuration c = [token, call].                   *)
(***************************************************************************)
\* an operation that catches what its login() raises and re-issues
RaiseCaughtByRetry(c, err, where) ==
    IF /\ where \in {"login", "_login", "get_service_urls"}
       /\ c.call.stack # <<>>
       /\ c.call.stack[1] = "retry"
    THEN [c EXCEPT !.call.req = "op", !.call.stack = <<>>,
                   !.call.retries = @ + 1, !.call.nReq = @ + 1]
    ELSE [c EXCEPT !.call.req = "none", !.call.stack = <<>>,
                   !.call.result = err, !.call.raisedIn = where]

\* an exception leaves every function of the call: none of them catches it
Raise(c, err, where) ==
    [c EXCEPT !.call.req = "none", !.call.stack = <<>>,
              !.call.result = err, !.call.raisedIn = where]

\* a retry that passes max_retries on unchanged
NextRetrySame(n) == n

\* a check that gives up one attempt early
RetriesExceededEarly(n) == n >= MAX_RETRIES

\* the counter an operation passes to itself after login(): max_retries + 1
NextRetry(n) == n + 1

\* the check every retrying operation starts with: max_retries > MAX_RETRIES
RetriesExceeded(n) == n > MAX_RETRIES

\* entry of the operation c.call.op with max_retries = n, up to its request
EnterOp(c, n) ==
    IF c.call.op \in RetryOps /\ RetriesExceeded(n)
    THEN Raise([c EXCEPT !.call.retries = n], MaxRetriesExceeded, c.call.op)
    ELSE IF c.call.op \in CheckedOps /\ ~c.call.args_ok
    THEN Raise([c EXCEPT !.call.retries = n], "PyEzvizError: argument", c.call.op)
    ELSE [c EXCEPT !.call.req = "op", !.call.retries = n,
                   !.call.nReq = @ + 1]

\* a login() that does not look whether account and password are held
EnterLoginWithoutCredentials(c) ==
    IF Truthy(c.token.session_id) /\ Truthy(c.token.rf_session_id)
    THEN [c EXCEPT !.call.req = "refresh"]
    ELSE [c EXCEPT !.token.api_url = RegionUrl(@), !.call.req = "login"]

\* entry of login(), up to the request it issues
EnterLogin(c) ==
    IF Truthy(c.token.session_id) /\ Truthy(c.token.rf_session_id)
    THEN [c EXCEPT !.call.req = "refresh"]
    ELSE IF creds
    THEN [c EXCEPT !.token.api_url = RegionUrl(@), !.call.req = "login"]
    ELSE Raise(c, LoginRequired, "login")

\* the running function returns value to what is on the stack
RECURSIVE Return(_, _)
Return(c, value) ==
    IF c.call.stack = <<>>
    THEN [c EXCEPT !.call.req = "none", !.call.result = "return: " \o value]
    ELSE LET top == c.call.stack[Len(c.call.stack)]
             rest == [c EXCEPT !.call.stack = SubSeq(@, 1, Len(@) - 1)] IN
         CASE top = "set_service_urls" ->
                Return([rest EXCEPT !.token.service_urls = value], "token")
           [] top = "raise_http" -> Raise(rest, "HTTPError", "get_service_urls")
           [] top = "retry" -> EnterOp(rest, NextRetry(c.call.retries))

Push(c, k) == [c EXCEPT !.call.stack = Append(@, k)]

\* an operation on the answer resp to its request
OnOpResponse(c, resp) ==
    LET h == OpHandle(c.call.op, resp)
        seen == [c EXCEPT !.call.only401 = @ /\ resp = "http_401",
                          !.call.onlyEmpty = @ /\ resp = "empty_result"] IN
    IF h = "login_retry"
    THEN EnterLogin(Push([seen EXCEPT !.call.nLogin = @ + 1], "retry"))
    ELSE IF SubSeq(h, 1, 8) = "return: "
    THEN [seen EXCEPT !.call.req = "none", !.call.result = h]
    ELSE Raise(seen, h, c.call.op)

\* login() on the answer to its refresh request
OnRefreshResponse(c, a) ==
    CASE a.kind = "conn_error" -> Raise(c, "ConnectionError", "login")
      [] a.kind = "http_error" -> Raise(c, "HTTPError", "login")
      [] a.kind = "bad_json" -> Raise(c, DecodeError, "login")
      [] a.kind = "ok" ->
            LET set == [c EXCEPT !.token.session_id = a.sid,
                                 !.token.rf_session_id = a.rf] IN
            IF ~Truthy(set.token.session_id)
            THEN Raise(set, "PyEzvizError: Relogin required", "login")
            ELSE IF ~Truthy(set.token.service_urls)
            THEN [Push(set, "set_service_urls") EXCEPT !.call.req = "service_urls"]
            ELSE Return(set, "token")

\* a redirect that logs in again where it did before
RedirectKeepsRegion(c, a) == EnterLogin(c)

\* _login on meta code 1100: the token takes loginArea.apiDomain, then
\* close_session() and self.login()
Redirect(c, a) == EnterLogin([c EXCEPT !.token.api_url = a.domain])

\* _login on the answer to its login request
OnLoginResponse(c, a) ==
    CASE a.kind = "conn_error" -> Raise(c, "InvalidURL", "_login")
      [] a.kind = "http_error" -> Raise(c, "HTTPError", "_login")
      [] a.kind = "bad_json" -> Raise(c, DecodeError, "_login")
      [] a.kind = "1100" -> Redirect(c, a)
      [] a.kind = "1013" -> Raise(c, "PyEzvizError: Incorrect Username.", "_login")
      [] a.kind = "1014" -> Raise(c, "PyEzvizError: Incorrect Password.", "_login")
      [] a.kind = "1015" -> Raise(c, "PyEzvizError: The user is locked.", "_login")
      [] a.kind = "ok" ->
            LET set == [c EXCEPT !.token.session_id = a.sid,
                                 !.token.rf_session_id = a.rf,
                                 !.token.username = a.user,
                                 !.token.api_url = a.domain] IN
            IF ~Truthy(set.token.session_id)
            THEN Raise(set, "PyEzvizError: Login error", "_login")
            ELSE [Push(set, "set_service_urls") EXCEPT !.call.req = "service_urls"]

\* get_service_urls on the answer to its request
OnServiceUrlsResponse(c, resp) ==
    CASE resp = "conn_error" -> Raise(c, "InvalidURL", "get_service_urls")
      [] resp = "http_401" -> EnterLogin(Push(c, "raise_http"))
      [] resp = "http_error" -> Raise(c, "HTTPError", "get_service_urls")
      [] resp = "empty_body" -> Raise(c, NoData, "get_service_urls")
      [] resp = "bad_json" -> Raise(c, DecodeError, "get_service_urls")
      [] resp = "ok" -> Return(c, "service_urls")

(***************************************************************************)
(* EzvizCamera.move of src/pyezviz/camera.py: two calls of ptz_control.     *)
(* call.ptz lists the <<command, action>> of the ptz requests issued,      *)
(* call.ptzOk counts those that ptz_control returned from.                 *)
(***************************************************************************)
Directions == {"right", "left", "down", "up"}
\* what a caller may pass for direction
DirectionInputs == Directions \cup {"RIGHT", "home", ""}

\* str(direction).upper()
Upper(direction) ==
    CASE direction = "right" -> "RIGHT"
      [] direction = "left" -> "LEFT"
      [] direction = "down" -> "DOWN"
      [] direction = "up" -> "UP"
      [] direction = "home" -> "HOME"
      [] OTHER -> direction

\* ptz_control(command, serial, action): up to its request
EnterPtz(c, command, action) ==
    [c EXCEPT !.call.req = "ptz", !.call.ptz = Append(@, <<command, action>>)]

\* entry of move(direction), up to the START request
move(c, direction) ==
    IF direction \notin Directions
    THEN Raise(c, "PyEzvizError: Invalid direction", "move")
    ELSE EnterPtz(c, Upper(direction), "START")

\* a move that leaves the camera moving: True after the START command
OnPtzResponseStartOnly(c, resp) ==
    LET h == ptz_control(resp) IN
    IF SubSeq(h, 1, 8) # "return: "
    THEN Raise(c, h, "ptz_control")
    ELSE [c EXCEPT !.call.ptzOk = @ + 1, !.call.req = "none",
                   !.call.result = "return: True"]

\* move on the answer to the request of its ptz_control: after START the
\* STOP command, after STOP return True; what ptz_control raises leaves move
OnPtzResponse(c, resp) ==
    LET h == ptz_control(resp)
        done == [c EXCEPT !.call.ptzOk = @ + 1] IN
    IF SubSeq(h, 1, 8) # "return: "
    THEN Raise(c, h, "ptz_control")
    ELSE IF Len(c.call.ptz) = 1
    THEN EnterPtz(done, Upper(c.call.direction), "STOP")
    ELSE [done EXCEPT !.call.req = "none", !.call.result = "return: True"]

(***************************************************************************)
(* The client: construction and the actions of a call.                     *)
(***************************************************************************)
\* __init__: token or the default token for url
EmptyToken(url) ==
    [session_id |-> NONE, rf_session_id |-> NONE, username |-> NONE,
     api_url |-> url, service_urls |-> NONE]

\* a token of an earlier session, handed to __init__
SavedToken(urls) ==
    [session_id |-> "s1", rf_session_id |-> "r1", username |-> "user",
     api_url |-> EU, service_urls |-> urls]

InitialTokens ==
    {EmptyToken(EU), EmptyToken("eu"), SavedToken(NONE), SavedToken("service_urls")}

NoCall ==
    [op |-> "none", args_ok |-> TRUE, req |-> "none", stack |-> <<>>,
     retries |-> 0, result |-> "none", raisedIn |-> "",
     nReq |-> 0, nLogin |-> 0, only401 |-> TRUE,
     onlyEmpty |-> TRUE, last |-> "none", sent |-> 0,
     host |-> "", sid |-> "", area |-> "", before |-> EmptyToken(""),
     direction |-> "", ptz |-> <<>>, ptzOk |-> 0]

InitClient ==
    /\ token \in InitialTokens
    /\ creds \in BOOLEAN
    /\ call = NoCall

\* the client as SpecBell leaves it: constructed, never called
IdleClient ==
    /\ token = EmptyToken(EU)
    /\ creds = FALSE
    /\ call = NoCall

\* call.sent is the number of transport invocations of the call as far as
\* 2 (two or more): a step that leaves a request out has sent one more.
Sent(c) ==
    IF c.call.req = "none" THEN c.call.sent
    ELSE IF call.req = "none" THEN 1 ELSE 2

\* a header that keeps the session id the step started with
HeaderSessionIdStale(c) ==
    IF c.call.req = "login" THEN "" ELSE token.session_id

\* headers={"sessionId": self._token["session_id"]}, read when the request
\* is built; the login request has no such header
HeaderSessionId(c) ==
    IF c.call.req = "login" THEN "" ELSE c.token.session_id

\* call.host and call.sid are the host the request that is out was sent to,
\* "https://" + self._token["api_url"] + ..., and its sessionId header
Become(c) ==
    /\ token' = c.token
    /\ call' = IF c.call.req = "none"
               THEN [c.call EXCEPT !.sent = Sent(c)]
               ELSE [c.call EXCEPT !.sent = Sent(c),
                                   !.host = c.token.api_url,
                                   !.sid = HeaderSessionId(c)]
    /\ UNCHANGED creds
    /\ UNCHANGED bellVars

\* the transport call that is out ends with the answer kind
Answered(kind) == [token |-> token, call |-> [call EXCEPT !.last = kind]]

\* call.before is the token a call of login() found
Fresh(op, args_ok) ==
    [token |-> token,
     call |-> [NoCall EXCEPT !.op = op, !.args_ok = args_ok,
                             !.before = IF op = "login" THEN token ELSE @]]

\* the caller invokes an endpoint operation (max_retries left at 0)
CallOp(op, args_ok) ==
    /\ call.req = "none"
    /\ op \in Ops
    /\ Become(EnterOp(Fresh(op, args_ok), 0))

\* the caller invokes login()
CallLogin ==
    /\ call.req = "none"
    /\ Become(EnterLogin(Fresh("login", TRUE)))

\* the caller invokes get_service_urls()
CallGetServiceUrls ==
    /\ call.req = "none"
    /\ Become([Fresh("get_service_urls", TRUE) EXCEPT !.call.req = "service_urls"])

\* a close_session() that empties the token
close_sessionDiscardsToken ==
    /\ call.req = "none"
    /\ Become([token |-> EmptyToken(token.api_url),
               call |-> [NoCall EXCEPT !.op = "close_session",
                                       !.result = "return: None"]])

\* close_session(): a new requests session; the token is not touched
close_session ==
    /\ call.req = "none"
    /\ Become([Fresh("close_session", TRUE) EXCEPT !.call.result = "return: None"])

OpResponse(resp) ==
    /\ call.req = "op"
    /\ Become(OnOpResponse(Answered(resp), resp))

RefreshResponse(a) ==
    /\ call.req = "refresh"
    /\ Become(OnRefreshResponse(Answered(a.kind), a))

LoginResponse(a) ==
    /\ call.req = "login"
    /\ Become(OnLoginResponse(
                [Answered(a.kind) EXCEPT !.call.area = a.domain], a))

ServiceUrlsResponse(resp) ==
    /\ call.req = "service_urls"
    /\ resp = "http_401" => Len(call.stack) < MaxDepth
    /\ Become(OnServiceUrlsResponse(Answered(resp), resp))

\* the caller invokes move(direction) of a camera of this client
CallMove(direction) ==
    /\ call.req = "none"
    /\ Become(move([Fresh("move", TRUE) EXCEPT !.call.direction = direction],
                   direction))

PtzResponse(resp) ==
    /\ call.req = "ptz"
    /\ Become(OnPtzResponse(Answered(resp), resp))

NextClient ==
    \/ \E op \in Ops, ok \in BOOLEAN : CallOp(op, ok)
    \/ CallLogin
    \/ CallGetServiceUrls
    \/ close_session
    \/ \E resp \in OpResponses : OpResponse(resp)
    \/ \E a \in RefreshAnswers : RefreshResponse(a)
    \/ \E a \in LoginAnswers : LoginResponse(a)
    \/ \E resp \in ServiceUrlsAnswers : ServiceUrlsResponse(resp)
    \/ \E direction \in DirectionInputs : CallMove(direction)
    \/ \E resp \in OpResponses : PtzResponse(resp)

(***************************************************************************)
(* The specifications.  The listener and the client share nothing, so each *)
(* is checked with the other at rest.                                      *)
(***************************************************************************)
Init == InitBell /\ InitClient
Next == NextBell \/ NextClient
Spec == Init /\ [][Next]_vars

InitListener == InitBell /\ IdleClient
SpecBell == InitListener /\ [][NextBell]_vars
SpecClient == Init /\ [][NextClient]_vars
\* the server answers every request that is out
SpecClientFair == SpecClient /\ WF_vars(NextClient)

(***************************************************************************)
(*                     Claims on the client's retries                      *)
(***************************************************************************)
LoginFunctions == {"login", "_login", "get_service_urls"}

\* C1 as stated: a call of a retrying operation started with counter 0
\* invokes login() at most MAX_RETRIES times.
C1_AtMostMaxRetriesLogins ==
    call.op \in RetryOps => call.nLogin <= MAX_RETRIES

\* C1 as amended: a call of a retrying operation started with counter 0
\* issues at most MAX_RETRIES + 1 requests (MAX_RETRIES re-issues) and invokes
\* login() itself at most MAX_RETRIES + 1 times, every login() being followed
\* by at most one re-issue; the counter of the request that is out is the
\* number of re-issues so far, one more per re-issued request.
C1_RetryBudget ==
    call.op \in RetryOps =>
        /\ call.nReq <= MAX_RETRIES + 1
        /\ call.nLogin <= MAX_RETRIES + 1
        /\ call.nReq - 1 <= call.nLogin
        /\ call.nLogin <= call.nReq
        /\ call.req = "op" =>
            /\ call.retries = call.nReq - 1
            /\ call.nLogin = call.retries

\* C1 witness: the login() after the (MAX_RETRIES + 1)-th request is under way.
C1_ExtraLoginUnderWay ==
    /\ call.op \in RetryOps
    /\ call.nReq = MAX_RETRIES + 1
    /\ call.nLogin = MAX_RETRIES + 1
    /\ call.req = "refresh"

\* C2 as stated: once a call of a retrying operation has had its
\* (MAX_RETRIES + 1)-th request answered 401, every request before it
\* answered 401 too, no request of any kind is out.
C2_NoRequestAfterLastUnauthorized ==
    (call.op \in RetryOps /\ call.only401 /\ call.nLogin = MAX_RETRIES + 1)
        => call.req = "none"

\* C2 as amended: a call of a retrying operation whose every request was
\* answered 401 issues at most MAX_RETRIES + 1 requests of its own; after the
\* (MAX_RETRIES + 1)-th such answer only the requests of one more login() are
\* issued, and when that login() returns the call ends with 'Max retries
\* exceeded'.
C2_UnauthorizedThroughout ==
    (call.op \in RetryOps /\ call.only401 /\ call.nReq > 0) =>
        /\ call.nReq <= MAX_RETRIES + 1
        /\ call.nLogin = MAX_RETRIES + 1 =>
            /\ call.nReq = MAX_RETRIES + 1
            /\ call.req \in {"refresh", "login", "service_urls", "none"}
        /\ (call.result # "none" /\ call.raisedIn \notin LoginFunctions) =>
            /\ call.result = MaxRetriesExceeded
            /\ call.nReq = MAX_RETRIES + 1
            /\ call.nLogin = MAX_RETRIES + 1
            /\ call.retries = MAX_RETRIES + 1
            /\ call.req = "none"

\* C2 witness: get_alarminfo, answered 401 every time, has given up.
C2_GaveUpAfterUnauthorized ==
    /\ call.op = "get_alarminfo"
    /\ call.only401
    /\ call.nReq = MAX_RETRIES + 1
    /\ call.result = MaxRetriesExceeded

(***************************************************************************)
(*                        Claims on the listener                           *)
(***************************************************************************)
\* the id values whose str() is a key of DOORBELLS
RegisteredIdValues ==
    {IntVal(647166), StrVal("647166"), IntVal(549660), StrVal("549660"),
     IntVal(56504), StrVal("56504")}

\* a well-formed event of a registered device
RegisteredEvent(m) ==
    /\ m.utf8
    /\ StartsWith(m.topic, "rtl_433")
    /\ m.json.t = "object"
    /\ m.json.id \in RegisteredIdValues

\* this step is process_mqtt handling the message last'.msg
Processed == last' # last \/ Len(tasks') # Len(tasks)
Permitted == Len(tasks') = Len(tasks) + 1
\* in this step task j calls play_sound
StartsPlay(j) == Len(tasks'[j].plays) > Len(tasks[j].plays)
Distance(a, b) == IF a < b THEN b - a ELSE a - b

\* C3 as stated: two permitted rings are more than 5 s apart, and a
\* registered event handled 5 s or less after the last permitted ring is
\* discarded with no sound played.
C3_MoreThanThreshold ==
    [][Processed =>
        /\ Permitted =>
            \A i \in 1..Len(tasks) : clock - tasks[i].granted > COOLDOWN_SECONDS
        /\ ( /\ RegisteredEvent(last'.msg)
             /\ tasks # <<>>
             /\ clock - tasks[Len(tasks)].granted <= COOLDOWN_SECONDS )
            => (last'.outcome = "cooldown_skip" /\ UNCHANGED <<tasks, music>>)
      ]_vars

\* C3 as amended: two permitted rings are at least 5 s apart, and a
\* registered event handled less than 5 s after the last permitted ring is
\* discarded with no sound played.
C3_AtLeastThreshold ==
    [][Processed =>
        /\ Permitted =>
            \A i \in 1..Len(tasks) : clock - tasks[i].granted >= COOLDOWN_SECONDS
        /\ ( /\ RegisteredEvent(last'.msg)
             /\ tasks # <<>>
             /\ clock - tasks[Len(tasks)].granted < COOLDOWN_SECONDS )
            => (last'.outcome = "cooldown_skip" /\ UNCHANGED <<tasks, music>>)
      ]_vars

\* C3 witness: a second ring was permitted exactly 5 s after the first.
C3_SecondRingAtThreshold ==
    /\ Len(tasks) = 2
    /\ tasks[2].granted - tasks[1].granted = COOLDOWN_SECONDS

\* C4: while no ring has been permitted since the start, a well-formed event
\* of a registered device rings, whenever it is handled.
C4_FirstEventRings ==
    [][(Processed /\ RegisteredEvent(last'.msg) /\ tasks = <<>>)
        => last'.outcome = "ring"]_vars

\* C5: COOLDOWN changes only in a step that permits a ring, and every such
\* step sets it to the current time; every discarded event leaves it as it is;
\* a registered event handled more than 5 s after the last permitted ring is
\* permitted.
C5_StampOnlyOnPermit ==
    [][ /\ COOLDOWN' # COOLDOWN => (Processed /\ Permitted)
        /\ (Processed /\ Permitted) => (COOLDOWN' = clock /\ COOLDOWN' # COOLDOWN)
        /\ (Processed /\ last'.outcome # "ring") => COOLDOWN' = COOLDOWN
        /\ ( /\ Processed
             /\ RegisteredEvent(last'.msg)
             /\ tasks # <<>>
             /\ clock - tasks[Len(tasks)].granted > COOLDOWN_SECONDS )
            => (last'.outcome = "ring" /\ Permitted)
      ]_vars

\* C5 witness: a second ring was permitted more than 5 s after the first,
\* with events discarded in between.
C5_PermittedAfterDiscards ==
    /\ Len(tasks) = 2
    /\ last.outcome = "ring"
    /\ last.after_discard
    /\ tasks[2].granted - tasks[1].granted > COOLDOWN_SECONDS
    /\ COOLDOWN = tasks[2].granted

\* C6: whenever tasks are suspended, the stamp of the last permitted ring is
\* already in COOLDOWN, and any two permitted rings, finished or still
\* running, are at least 5 s apart: one permission per cooldown window.
C6_OnePermitPerWindow ==
    /\ tasks # <<>> => COOLDOWN = tasks[Len(tasks)].granted
    /\ \A i, j \in 1..Len(tasks) :
        i < j => tasks[j].granted - tasks[i].granted >= COOLDOWN_SECONDS

\* C6 witness: a ring is permitted while the ring before it is still running.
C6_PermittedWhileRinging ==
    /\ Len(tasks) = 2
    /\ tasks[1].pc # "done"
    /\ tasks[2].pc = "sleep1"

C8_UnknownIdDiscarded ==
    [][( /\ Processed
         /\ last'.msg.utf8
         /\ last'.msg.json.t = "object"
         /\ last'.msg.json.id \notin RegisteredIdValues )
        => /\ last'.outcome \in {"invalid_topic", "invalid_id"}
           /\ UNCHANGED <<COOLDOWN, tasks, music>>]_vars

\* C8 witness: {"id": 999999} was discarded at a time a registered event
\* would have rung.
C8_UnknownIdSeen ==
    /\ last.msg.json.id = IntVal(999999)
    /\ last.outcome = "invalid_id"
    /\ clock - COOLDOWN >= COOLDOWN_SECONDS

\* C9: a payload that is not UTF-8, not JSON or not a JSON object is
\* discarded: process_mqtt returns without raising.
C9_UndecodableDiscarded ==
    (last.outcome # "none" /\ (~last.msg.utf8 \/ last.msg.json.t # "object"))
        => last.outcome \in {"invalid_topic", "invalid_json"}

\* C10: a ring action for the sound S calls the player chime, S, chime, S, or
\* S, S when S is the test sound, no more and no less once it is done, and
\* calls it only when its call before has returned.
PlaysFor(S) == IF S = "testing.ogg" THEN <<S, S>>
               ELSE <<"chime.ogg", S, "chime.ogg", S>>

C10_PlaySequence ==
    \A i \in 1..Len(tasks) :
        LET t == tasks[i]
            e == PlaysFor(t.sound) IN
        /\ Len(t.plays) <= Len(e)
        /\ t.plays = SubSeq(e, 1, Len(t.plays))
        /\ t.pc = "done" => (t.plays = e /\ t.returned = Len(e))
        /\ t.returned <= Len(t.plays)
        /\ Len(t.plays) <= t.returned + 1
        /\ t.pc \notin PlayPcs => t.returned = Len(t.plays)

\* C10 witness: a ring with chime and a ring of the test sound are both done.
C10_BothVariantsDone ==
    \E i, j \in 1..Len(tasks) :
        /\ tasks[i].pc = "done" /\ tasks[i].sound = "backdoor.ogg"
        /\ Len(tasks[i].plays) = 4
        /\ tasks[j].pc = "done" /\ tasks[j].sound = TESTING
        /\ Len(tasks[j].plays) = 2

(***************************************************************************)
(*                 Claims on the client's error handling                   *)
(***************************************************************************)
\* this step is the answer to the request that was out
AnswerStep == call.req # "none" /\ call' # call

\* this step leaves the call's counters and transport count as they were
NothingMore ==
    /\ call'.req = "none"
    /\ call'.retries = call.retries
    /\ call'.nReq = call.nReq
    /\ call'.nLogin = call.nLogin
    /\ call'.sent = call.sent

\* C11: when a transport call fails at connection level the call ends in that
\* step with an exception: no request is issued after it, login() is not
\* invoked, the retry counter stays, and a call whose first request failed
\* has made one transport invocation.
C11_ConnectionFailureEndsCall ==
    [][(AnswerStep /\ call'.last = "conn_error") =>
        /\ NothingMore
        /\ call'.result \in {"ConnectionError", "InvalidURL"}
        /\ call.sent = 1 => call'.sent = 1
      ]_vars

\* C11 witness: _api_get_pagelist has failed on its first request, the host
\* unreachable, after one transport invocation.
C11_FirstRequestUnreachable ==
    /\ call.op = "_api_get_pagelist"
    /\ call.last = "conn_error"
    /\ call.sent = 1
    /\ call.nLogin = 0
    /\ call.result = "ConnectionError"

\* C12: a call whose transport call failed at connection level ends with
\* InvalidURL.
C12_ConnectionFailureIsInvalidURL ==
    call.last = "conn_error" => call.result = "InvalidURL"

\* C13: a 401 answer to the request of an endpoint operation, ptz_control and
\* get_service_urls included, with retry budget left, makes the operation
\* invoke login() once and then re-issue its request.
C13_UnauthorizedRefreshesAndReissues ==
    [][( /\ AnswerStep
         /\ call'.last = "http_401"
         /\ \/ call.req = "op"
            \/ call.op = "get_service_urls" /\ call.req = "service_urls"
         /\ call.retries < MAX_RETRIES )
        => \/ /\ call'.req \in {"refresh", "login"}
              /\ call'.stack # <<>>
              /\ call'.stack[Len(call'.stack)] = "retry"
           \/ call'.result = LoginRequired
      ]_vars

\* C14: an HTTP error status other than 401 in answer to the request of an
\* endpoint operation ends the call with HTTPError in that step: login() is
\* not invoked, nothing is re-issued, the token stays as it is.
C14_HttpErrorIsFatal ==
    [][( /\ AnswerStep
         /\ call'.last = "http_error"
         /\ call.req \in {"op", "service_urls"} )
        => /\ NothingMore
           /\ call'.result = "HTTPError"
           /\ token' = token
      ]_vars

\* C14 witness: sound_alarm, re-issued once after a 401, got another HTTP
\* error status and raised HTTPError.
C14_HttpErrorAfterRetry ==
    /\ call.op = "sound_alarm"
    /\ call.last = "http_error"
    /\ call.nReq = 2
    /\ call.nLogin = 1
    /\ call.result = "HTTPError"

(***************************************************************************)
(*                     Claims on the session token                         *)
(***************************************************************************)
\* the four fields of a token: session id, refresh id, account, base address
FullyPopulated(t) ==
    /\ Truthy(t.session_id)
    /\ Truthy(t.rf_session_id)
    /\ Truthy(t.username)
    /\ Truthy(t.api_url)

\* the token of a client constructed without one
FullyEmpty(t) ==
    /\ t.session_id = NONE
    /\ t.rf_session_id = NONE
    /\ t.username = NONE

\* this step is the answer to a refresh request, and the refresh has failed:
\* an HTTP error status, a body that is no JSON, or an empty session id
RefreshFails ==
    /\ AnswerStep
    /\ call.req = "refresh"
    /\ \/ call'.last \in {"http_401", "http_error", "bad_json"}
       \/ call'.last = "ok" /\ ~Truthy(token'.session_id)

\* C15: the token a call of login() returns has its four fields populated.
C15_ReturnedTokenPopulated ==
    (call.op = "login" /\ call.result = "return: token") => FullyPopulated(token)

\* C16: whenever an operation can be invoked, the token is fully populated
\* or fully empty.
C16_TokenWholeOrEmpty ==
    call.req = "none" => (FullyPopulated(token) \/ FullyEmpty(token))

\* C17: when the refresh fails and the client holds no account and password,
\* the call ends with 'Login with account and password required' and no
\* login request is issued.
C17_RefreshFailureNeedsCredentials ==
    [][(RefreshFails /\ ~creds) =>
        (call'.req = "none" /\ call'.result = LoginRequired)]_vars

\* C18: when the refresh fails and the client holds account and password,
\* the same call of login() issues the credential login request.
C18_RefreshFailureFallsBack ==
    [][(RefreshFails /\ creds) => call'.req = "login"]_vars

\* C19: a login or refresh answered while the token carries service_urls
\* issues no service-info request, and a token that login() returns carries
\* service_urls.
C19_ServiceUrlsFetchedOnce ==
    [][ /\ ( /\ AnswerStep
             /\ call.req \in {"refresh", "login"}
             /\ Truthy(token.service_urls) )
            => call'.req # "service_urls"
        /\ (call'.op = "login" /\ call'.result = "return: token")
            => Truthy(token'.service_urls)
      ]_vars

\* C20: a call whose request was answered with success and a body that is no
\* JSON ends with 'Impossible to decode response', which carries the body.
C20_UndecodableIsFatal ==
    call.last = "bad_json" => (call.req = "none" /\ call.result = DecodeError)

(***************************************************************************)
(*                  Further claims on the listener                         *)
(***************************************************************************)
\* C22: a registered event of a device other than the one that rang last,
\* handled less than 5 s after that ring was permitted, is discarded, and
\* COOLDOWN, the ring actions and the mixer stay as they are.
C22_CooldownSharedAcrossDevices ==
    [][( /\ Processed
         /\ RegisteredEvent(last'.msg)
         /\ tasks # <<>>
         /\ SoundOf(last'.msg) # tasks[Len(tasks)].sound
         /\ clock - tasks[Len(tasks)].granted < COOLDOWN_SECONDS )
        => /\ last'.outcome = "cooldown_skip"
           /\ UNCHANGED <<COOLDOWN, tasks, music>>
      ]_vars

\* C22 witness: a back-door event was discarded less than 5 s after a
\* front-door ring was permitted.
C22_BackDoorSuppressed ==
    /\ tasks # <<>>
    /\ tasks[Len(tasks)].sound = "frontdoor.ogg"
    /\ clock - tasks[Len(tasks)].granted < COOLDOWN_SECONDS
    /\ RegisteredEvent(last.msg)
    /\ SoundOf(last.msg) = "backdoor.ogg"
    /\ last.outcome = "cooldown_skip"

\* C24: while the listener is subscribed, a ring action in progress does not
\* hold back the next message: process_mqtt can take a message at once (as
\* long as the model keeps room for a ring action) and decide it in that
\* step, be it an event of a registered device (ring or cooldown skip) or a
\* message that a filter discards.
C24_DeliveryNotBlocked ==
    ( /\ fetch_pc = "listening"
      /\ Len(tasks) < MaxTasks
      /\ \E i \in 1..Len(tasks) : tasks[i].pc # "done" )
        => /\ ENABLED (\E m \in Messages :
                        /\ process_mqtt(m)
                        /\ last'.outcome \in {"ring", "cooldown_skip"})
           /\ ENABLED (\E m \in Messages :
                        /\ process_mqtt(m)
                        /\ last'.outcome \notin {"ring", "cooldown_skip"})

\* C24 witness: an event was discarded while the ring action permitted
\* before it is playing.
C24_DecidedWhileRinging ==
    /\ tasks # <<>>
    /\ tasks[Len(tasks)].pc \in PlayPcs
    /\ music.busy
    /\ last.outcome \in {"cooldown_skip", "invalid_id", "invalid_topic"}

\* C26: every ring action was started by a message that is valid UTF-8 on a
\* topic starting with 'rtl_433', whose payload is a JSON object with an id
\* in DOORBELLS; it plays the chime and the sound registered for that id and
\* nothing else; the mixer holds only files a ring action loaded; a message
\* that fails a filter changes neither the ring actions nor the mixer.
C26_OnlyFilteredEventsRing ==
    [][ /\ \A i \in 1..Len(tasks') :
            LET t == tasks'[i] IN
            /\ RegisteredEvent(t.msg)
            /\ t.sound = DOORBELLS[PyStr(GetId(t.msg.json))].sound
            /\ \A k \in 1..Len(t.plays) : t.plays[k] \in {CHIME, t.sound}
        /\ music'.file # "none" =>
            \E i \in 1..Len(tasks') : \E k \in 1..Len(tasks'[i].plays) :
                tasks'[i].plays[k] = music'.file
        /\ (Processed /\ ~RegisteredEvent(last'.msg))
            => (last'.outcome # "ring" /\ UNCHANGED <<tasks, music, COOLDOWN>>)
      ]_vars

\* C26 witness: the front-door sound is playing for a ring started by the
\* message {"id": 647166}, the only ring action; a message of another topic
\* with the same payload has just been discarded.
C26_FrontDoorPlaying ==
    /\ Len(tasks) = 1
    /\ tasks[1].msg.json.id = IntVal(647166)
    /\ tasks[1].plays = <<CHIME, "frontdoor.ogg">>
    /\ music.file = "frontdoor.ogg"
    /\ last.msg.topic = OTHER_TOPIC
    /\ last.outcome = "invalid_topic"

(***************************************************************************)
(*                    Further claims on the client                         *)
(***************************************************************************)
\* the endpoints that change state
StateChangingOps ==
    {"_switch_status", "sound_alarm", "api_set_defence_schedule",
     "api_set_defence_mode", "detection_sensibility"}

Raised(result) == result # "none" /\ SubSeq(result, 1, 8) # "return: "

\* C21: a 200 answer with a non-success application code makes
\* _api_get_pagelist invoke login() and re-issue with the counter one higher,
\* and makes a state-changing endpoint end the call with a PyEzvizError, with
\* no login() and no re-issue.
C21_ApplicationCodeHandled ==
    [][(AnswerStep /\ call.req = "op" /\ call'.last = "app_error") =>
        /\ call.op = "_api_get_pagelist" =>
            /\ call'.nLogin = call.nLogin + 1
            /\ \/ /\ call'.req \in {"refresh", "login"}
                  /\ call'.stack = <<"retry">>
                  /\ call'.retries = call.retries
               \/ call'.result = LoginRequired
        /\ call.op \in StateChangingOps =>
            /\ NothingMore
            /\ Raised(call'.result)
            /\ call'.raisedIn = call.op
      ]_vars

\* C23 as stated: after close_session the token is empty.
C23_CloseDiscardsToken ==
    call.op = "close_session" => FullyEmpty(token)

\* C23 as amended: close_session leaves the token as it is, and a login()
\* called next sends the refresh request when the token holds a session id
\* and a refresh id, the credential login only when it does not.
C23_CloseKeepsToken ==
    [][ /\ call'.op = "close_session" => token' = token
        /\ (call.op = "close_session" /\ call'.op = "login") =>
            IF Truthy(token.session_id) /\ Truthy(token.rf_session_id)
            THEN call'.req = "refresh"
            ELSE call'.req \in {"login", "none"}
      ]_vars

\* C23 witness: close_session has returned and the token is fully populated.
C23_ClosedWithToken ==
    /\ call.op = "close_session"
    /\ call.result = "return: None"
    /\ FullyPopulated(token)

\* C25: on the answer 1100 to the login request the token takes the address
\* the answer names and nothing else, and the login request goes out again,
\* to that address; a login request that is answered with success was sent
\* to the address the last login answer before it named.
C25_RedirectAdopted ==
    [][(AnswerStep /\ call.req = "login") =>
        /\ call'.last = "1100" =>
            /\ token'.api_url = call'.area
            /\ token'.session_id = token.session_id
            /\ token'.rf_session_id = token.rf_session_id
            /\ token'.username = token.username
            /\ call'.req = "login"
            /\ call'.host = call'.area
        /\ (call'.last = "ok" /\ call.area # "") => call.host = call.area
      ]_vars

\* C25 witness: after a redirect to the US and one to South America the login
\* request is out to the South American address.
C25_RedirectedTwice ==
    /\ call.req = "login"
    /\ call.last = "1100"
    /\ call.sent = 2
    /\ call.area = SA
    /\ call.host = SA
    /\ token.api_url = SA

\* C27: a request of an endpoint operation that goes out has the token's
\* session id of that moment in its sessionId header; after a refresh that
\* is the id the refresh stored.
C27_HeaderIsCurrentSessionId ==
    [][(call'.req \in {"op", "service_urls"} /\ call' # call) =>
        call'.sid = token'.session_id]_vars

\* C27 witness: the request re-issued after a refresh carries the id "s2"
\* of the refresh, the first one went out with "s1".
C27_ReissuedWithNewId ==
    /\ call.op \in RetryOps
    /\ call.req = "op"
    /\ call.nReq = 2
    /\ call.last = "ok"
    /\ token.session_id = "s2"
    /\ call.sid = "s2"

\* C28: a _api_get_pagelist call whose every request was answered with an
\* empty result issues at most MAX_RETRIES + 1 requests, never returns, and
\* when its login() calls return ends with 'Max retries exceeded' after
\* MAX_RETRIES + 1 requests.
C28_EmptyResultGivesUp ==
    (call.op = "_api_get_pagelist" /\ call.onlyEmpty /\ call.nReq > 0) =>
        /\ call.nReq <= MAX_RETRIES + 1
        /\ ~(call.result # "none" /\ ~Raised(call.result))
        /\ (Raised(call.result) /\ call.raisedIn \notin LoginFunctions) =>
            /\ call.result = MaxRetriesExceeded
            /\ call.nReq = MAX_RETRIES + 1
            /\ call.req = "none"

\* C28 witness: the pagelist call has given up after MAX_RETRIES + 1 empty
\* results.
C28_GaveUpOnEmpty ==
    /\ call.op = "_api_get_pagelist"
    /\ call.onlyEmpty
    /\ call.nReq = MAX_RETRIES + 1
    /\ call.result = MaxRetriesExceeded

\* C29: every call of login() comes to its end, the server answering every
\* request.
C29_LoginTerminates ==
    (call.op = "login" /\ call.req # "none") ~> (call.req = "none")

\* C30: login() on a token without session id or without refresh id raises
\* 'Login with account and password required' with no request and the token
\* unchanged when no account and password are held, and sends the credential
\* login when they are; on a token with both ids it sends the refresh
\* request, which carries no account and no password.
C30_LoginEntry ==
    [][(call.req = "none" /\ call'.op = "login" /\ call' # call) =>
        IF Truthy(token.session_id) /\ Truthy(token.rf_session_id)
        THEN /\ call'.req = "refresh"
             /\ call'.sent = 1
             /\ Payload(call'.req) \cap {"account", "password"} = {}
             /\ token' = token
        ELSE IF creds
        THEN /\ call'.req = "login"
             /\ call'.sent = 1
             /\ {"account", "password"} \subseteq Payload(call'.req)
        ELSE /\ call'.req = "none"
             /\ call'.sent = 0
             /\ call'.result = LoginRequired
             /\ token' = token
      ]_vars

\* C30 witness: login() has raised with no request on a token that holds a
\* session id and no refresh id.
C30_NoRefreshIdNoCredentials ==
    /\ call.op = "login"
    /\ call.result = LoginRequired
    /\ call.sent = 0
    /\ Truthy(token.session_id)
    /\ ~Truthy(token.rf_session_id)
    /\ ~creds

(***************************************************************************)
(*                  Claims on a recovery that fails                        *)
(***************************************************************************)
\* this step is an answer that makes the login() of a retry raise: a failure
\* of the transport, a body that is no JSON, a rejected account, an empty
\* session id, no service-info data
RecoveryFails ==
    /\ AnswerStep
    /\ call.op \in RetryOps
    /\ call.req \in {"refresh", "login", "service_urls"}
    /\ \/ call'.last \in {"conn_error", "http_error", "bad_json", "empty_body",
                          "1013", "1014", "1015"}
       \/ /\ call'.last = "ok"
          /\ call.req \in {"refresh", "login"}
          /\ ~Truthy(token'.session_id)

\* C31: when the login() an operation invokes to recover raises, the
\* operation ends in that step with login()'s exception: no request is
\* issued after it, the retry counter stays, 'Max retries exceeded' is not
\* raised.
C31_FailedRecoveryEndsCall ==
    [][ /\ RecoveryFails =>
            /\ NothingMore
            /\ Raised(call'.result)
            /\ call'.raisedIn \in LoginFunctions
            /\ call'.result # MaxRetriesExceeded
        /\ ( /\ AnswerStep
             /\ call.req = "op"
             /\ call'.nLogin > call.nLogin
             /\ call'.req = "none" ) =>
            /\ call'.result = LoginRequired
            /\ call'.raisedIn = "login"
            /\ call'.nReq = call.nReq
            /\ call'.retries = call.retries
      ]_vars

\* C31 witness: _api_get_pagelist, answered with an application code or an
\* empty result, has called login(), whose refresh got an HTTP error status,
\* and has ended with that HTTPError after its one request.
C31_PagelistEndedByRefreshError ==
    /\ call.op = "_api_get_pagelist"
    /\ ~call.only401
    /\ call.nReq = 1
    /\ call.nLogin = 1
    /\ call.retries = 0
    /\ call.last = "http_error"
    /\ call.raisedIn = "login"
    /\ call.result = "HTTPError"

\* C32: when a call of login() has raised, the token is the one the call
\* found.
C32_FailedLoginKeepsToken ==
    (call.op = "login" /\ call.req = "none" /\ Raised(call.result))
        => token = call.before

(***************************************************************************)
(*                     Claims on EzvizCamera.move                          *)
(***************************************************************************)
StartOf(direction) == <<Upper(direction), "START">>
StopOf(direction) == <<Upper(direction), "STOP">>

\* C33 as stated: a move in one of the four directions that has ended has
\* issued two ptz_control requests.
C33_ExactlyTwoRequests ==
    (call.op = "move" /\ call.direction \in Directions /\ call.req = "none")
        => Len(call.ptz) = 2

\* C33 as amended: move in one of the four directions issues START and, when
\* ptz_control returned from START, STOP, and nothing else; it returns True
\* after ptz_control returned from both and raises what ptz_control raised
\* otherwise; in any other direction it raises with no request.
C33_MoveStartThenStop ==
    call.op = "move" =>
        /\ call.direction \notin Directions =>
            /\ call.ptz = <<>>
            /\ call.sent = 0
            /\ call.req = "none"
            /\ call.result = "PyEzvizError: Invalid direction"
        /\ call.direction \in Directions =>
            /\ \/ call.ptz = <<StartOf(call.direction)>>
               \/ call.ptz = <<StartOf(call.direction), StopOf(call.direction)>>
            /\ call.ptzOk >= 1 => Len(call.ptz) = 2
            /\ call.result = "return: True" <=> call.ptzOk = 2
            /\ (call.req = "none" /\ call.ptzOk < 2) =>
                /\ call.result \in {"HTTPError", "ConnectionError"}
                /\ Len(call.ptz) = call.ptzOk + 1

\* C33 witness: move("left") has returned True after START and STOP.
C33_MovedLeft ==
    /\ call.op = "move"
    /\ call.direction = "left"
    /\ call.ptz = <<(<<"LEFT", "START">>), (<<"LEFT", "STOP">>)>>
    /\ call.ptzOk = 2
    /\ call.result = "return: True"

====
